---- MODULE Spec2Model ----
(***************************************************************************)
(* Model of my_allocator<T, ChunkSize> (src/my_allocator.h) and of         *)
(* my_container<T, my_allocator<T, ChunkSize>> (src/unnamed/part_001).     *)
(*                                                                         *)
(* Raw memory is a finite set of blocks handed out by operator new.  A     *)
(* pointer is a pair <<block, index>>; Null is <<0, 0>>.  Every slot of a  *)
(* block is raw storage, a constructed Node, or a Node whose destructor    *)
(* has run.  Reading a slot that holds no constructed Node has no defined  *)
(* result: iteration reports it as the value Undef.                        *)
(***************************************************************************)
EXTENDS Integers, Sequences, FiniteSets, TLC

\* ---------------------------------------------------------------- bounds
ChunkSize == 2      \* the template argument ChunkSize the containers and allocators are built with
NumObjs   == 2      \* objects 1..NumObjs: allocators, or containers with their allocator_
MaxBlocks == 2      \* addresses operator new can return before bad_alloc
MaxN      == 3      \* largest n passed to allocate(n) directly
MaxSteps   == 5     \* member function calls in a run of Spec
SoloSteps  == 8     \* member function calls in a run of SpecSolo
AllocSteps == 5     \* member function calls in a run of SpecAlloc
FillSteps  == 13    \* member function calls in a run of SpecFill
WordBits   == 6     \* bits of size_type: sizes are computed modulo 2^WordBits
MaxSizeof  == 8     \* largest sizeof(T) of an instantiation in SpecBytes
BytesSteps == 2     \* requests in a run of SpecBytes

\* template <typename T, std::size_t ChunkSize = 10>: the default argument
DefaultChunkSize == 10

\* the template argument of the instantiation under study; fixed in a run
VARIABLE chunk_size

\* sizeof(T) of the instantiation under study, in bytes; fixed in a run
VARIABLE sizeof_T

\* std::numeric_limits<size_type>::max()
SizeTypeMax == 2^WordBits - 1

Objs     == 1..NumObjs
Blocks   == 1..MaxBlocks
Max(a, b) == IF a >= b THEN a ELSE b
Cap      == Max(chunk_size, MaxN)   \* most elements one block can hold
Fuel     == MaxBlocks * Cap + 1     \* more link steps than there are slots
Null     == <<0, 0>>
Undef    == 0 - 1                   \* what reading a non-object yields
\* the orders in which operator new looks for a free address: from any block on
Orders   == {[i \in 1..MaxBlocks |-> ((k + i - 2) % MaxBlocks) + 1] : k \in Blocks}

RawSlot  == [st |-> "raw",  data |-> 0, next |-> Null]
DeadSlot == [st |-> "dead", data |-> 0, next |-> Null]
RawBlock == [i \in 0..(Cap - 1) |-> RawSlot]

\* ---------------------------------------------------------------- the running member function
\* What a member function of an allocator or container works on: the object's
\* fields (head, tail, size, chunks), the raw memory (heap, mem), and its outcome:
\*   ret     the pointer the last allocate() returned
\*   rets    every slot allocate() returned during the call
\*   thrown  an exception is propagating
\*   ub      the call used storage that is not allocated, or a Node that is not
\*           constructed: from there on the program has no defined behaviour
\*   over    a loop over the nodes ran longer than there are slots: it never ends
World(hd, tl, sz, cs, hp, mm) ==
  [head |-> hd, tail |-> tl, size |-> sz, chunks |-> cs, heap |-> hp, mem |-> mm,
   ret |-> Null, rets |-> {}, thrown |-> FALSE, ub |-> FALSE, over |-> FALSE,
   log |-> <<>>]

\* ---------------------------------------------------------------- raw memory
\* p points into storage that is currently allocated
InLive(w, p) == p # Null /\ p[2] < w.heap[p[1]]

\* p designates a constructed Node inside allocated storage
IsObj(w, p) == InLive(w, p) /\ w.mem[p[1]][p[2]].st = "live"

\* operator new: the first free address in the order the heap prefers, 0 if none
operator_new(w, ord) ==
  LET free == {i \in 1..MaxBlocks : w.heap[ord[i]] = 0}
  IN IF free = {} THEN 0
     ELSE ord[CHOOSE i \in free : \A j \in free : i <= j]

\* operator delete(chunk.data): the storage ends, and every object in it with it;
\* deleting an address that is not allocated is a double free
operator_delete(w, b) ==
  LET e == [ev |-> "delete", at |-> <<b, 0>>, ok |-> w.heap[b] # 0]
  IN IF w.heap[b] = 0 THEN [w EXCEPT !.ub = TRUE, !.log = Append(@, e)]
     ELSE [w EXCEPT !.heap[b] = 0, !.mem[b] = RawBlock, !.log = Append(@, e)]

\* p->~U(): whatever is at p is an object no longer.  Run on a slot of allocated
\* storage that holds no object it does nothing when ~U() is trivial and may stop
\* the program otherwise; the model goes on, the outcome that still has a future.
DestroyAt(w, p) ==
  LET e == [ev |-> "destroy", at |-> p, ok |-> InLive(w, p)]
  IN IF InLive(w, p) THEN [w EXCEPT !.mem[p[1]][p[2]] = DeadSlot, !.log = Append(@, e)]
     ELSE [w EXCEPT !.ub = TRUE, !.log = Append(@, e)]

\* ::new (p) Node(value): data = value, next = nullptr
ConstructAt(w, p, v) ==
  IF InLive(w, p)
  THEN [w EXCEPT !.mem[p[1]][p[2]] = [st |-> "live", data |-> v, next |-> Null]]
  ELSE [w EXCEPT !.ub = TRUE]

\* ---------------------------------------------------------------- my_allocator
\* a search that takes the last chunk with room instead of the first
FirstFitLast(cs, n) ==
  LET fit == {k \in 1..Len(cs) : cs[k].size - cs[k].used >= n}
  IN IF fit = {} THEN 0 ELSE CHOOSE k \in fit : \A j \in fit : k >= j

\* a search that passes over a chunk the request would fill exactly
FirstFitStrict(cs, n) ==
  LET fit == {k \in 1..Len(cs) : cs[k].size - cs[k].used > n}
  IN IF fit = {} THEN 0 ELSE CHOOSE k \in fit : \A j \in fit : k <= j

\* index of the first chunk with size - used >= n, 0 if there is none
FirstFit(cs, n) ==
  LET fit == {k \in 1..Len(cs) : cs[k].size - cs[k].used >= n}
  IN IF fit = {} THEN 0 ELSE CHOOSE k \in fit : \A j \in fit : k <= j

\* allocate() that hands out a range without counting it as used
BumpNone(cs, k, n) == cs

\* chunk.used += n on the chunk that fits
Bump(cs, k, n) == [cs EXCEPT ![k].used = cs[k].used + n]

\* allocate() whose new chunk always has ChunkSize elements
NewChunkSizeFixed(n) == chunk_size

\* size_type new_size = std::max(ChunkSize, n)
NewChunkSize(n) == Max(chunk_size, n)

\* new_size * sizeof(T), the argument of operator new: a product of two
\* size_type values, taken modulo 2^WordBits
ByteCount(new_size) == (new_size * sizeof_T) % (2^WordBits)

\* max_size(): numeric_limits<size_type>::max() / sizeof(T)
max_size == SizeTypeMax \div sizeof_T

\* chunks_.push_back({new_memory, new_size, 0})
NewChunk(new_memory, new_size) == [data |-> new_memory, size |-> new_size, used |-> 0]

\* a new chunk left with nothing counted as used
MarkUsedNot(cs, n) == cs

\* chunks_.back().used = n
MarkUsed(cs, n) == [cs EXCEPT ![Len(cs)].used = n]

\* allocate() without the test for n == 0: a request for nothing is served like any other
allocate_unchecked(w, n, ord) ==
  LET k == FirstFit(w.chunks, n) IN
    IF k # 0
    THEN LET result == <<w.chunks[k].data, w.chunks[k].used>> IN
         [w EXCEPT !.chunks = Bump(w.chunks, k, n),
                   !.ret = result,
                   !.rets = w.rets \cup {<<result[1], result[2] + i>> : i \in 0..(n - 1)}]
    ELSE LET new_size   == NewChunkSize(n)
             new_memory == operator_new(w, ord)
         IN IF new_memory = 0
            THEN [w EXCEPT !.ret = Null, !.thrown = TRUE]
            ELSE [w EXCEPT !.chunks = MarkUsed(Append(w.chunks, NewChunk(new_memory, new_size)), n),
                           !.heap[new_memory] = new_size,
                           !.mem[new_memory] = RawBlock,
                           !.ret = <<new_memory, 0>>,
                           !.rets = w.rets \cup {<<new_memory, i>> : i \in 0..(n - 1)}]

\* allocate(n)
allocate(w, n, ord) ==
  IF n = 0 THEN [w EXCEPT !.ret = Null]
  ELSE LET k == FirstFit(w.chunks, n) IN
    IF k # 0
    THEN LET result == <<w.chunks[k].data, w.chunks[k].used>> IN
         [w EXCEPT !.chunks = Bump(w.chunks, k, n),
                   !.ret = result,
                   !.rets = w.rets \cup {<<result[1], result[2] + i>> : i \in 0..(n - 1)}]
    ELSE LET new_size   == NewChunkSize(n)
             new_memory == operator_new(w, ord)
         IN IF new_memory = 0
            THEN [w EXCEPT !.ret = Null, !.thrown = TRUE]
            ELSE [w EXCEPT !.chunks = MarkUsed(Append(w.chunks, NewChunk(new_memory, new_size)), n),
                           !.heap[new_memory] = new_size,
                           !.mem[new_memory] = RawBlock,
                           !.ret = <<new_memory, 0>>,
                           !.rets = w.rets \cup {<<new_memory, i>> : i \in 0..(n - 1)}]

\* deallocate that gives the range back when it is the last one of its chunk
deallocate_returns(w, p, n) ==
  [w EXCEPT !.chunks = [k \in 1..Len(w.chunks) |->
      IF w.chunks[k].data = p[1] /\ w.chunks[k].used = p[2] + n
      THEN [w.chunks[k] EXCEPT !.used = p[2]]
      ELSE w.chunks[k]]]

\* deallocate that moves the chunk's used count back to where p starts
deallocate_rewinds(w, p, n) ==
  [w EXCEPT !.chunks = [k \in 1..Len(w.chunks) |->
      IF w.chunks[k].data = p[1] /\ p[2] < w.chunks[k].used
      THEN [w.chunks[k] EXCEPT !.used = p[2]]
      ELSE w.chunks[k]]]

\* deallocate(p, n): nothing
deallocate(w, p, n) == w

\* the destructor's inner loop: ~T() on chunk.data[i .. used-1]
RECURSIVE DestroyRange(_, _, _, _)
DestroyRange(w, b, i, used) ==
  IF i >= used THEN w
  ELSE DestroyRange(DestroyAt(w, <<b, i>>), b, i + 1, used)

\* ~my_allocator(): chunk by chunk, destroy [0, used) and then delete the memory
RECURSIVE DestroyChunks(_, _)
DestroyChunks(w, cs) ==
  IF cs = <<>> THEN w
  ELSE LET chunk == Head(cs)
       IN DestroyChunks(operator_delete(DestroyRange(w, chunk.data, 0, chunk.used), chunk.data),
                        Tail(cs))

Teardown(w) == [DestroyChunks(w, w.chunks) EXCEPT !.chunks = <<>>]

\* my_allocator(const my_allocator&) = default: the new allocator's chunks_ is a
\* copy of the vector, so its Chunk records name the same memory
CopyAllocator(cs) == cs

\* the implicit operator=(const my_allocator&): chunks_ = other.chunks_; the
\* chunks the target held are dropped without being deleted.  There is no move
\* constructor or move assignment, so std::move(allocator) selects the copies.
AssignAllocator(mine, theirs) == theirs

\* ---------------------------------------------------------------- my_container
\* push_back that never links the new node behind the old tail
SetNextLost(w, p, q) == w

\* tail_->next = new_node
SetNext(w, p, q) ==
  IF IsObj(w, p) THEN [w EXCEPT !.mem[p[1]][p[2]].next = q] ELSE [w EXCEPT !.ub = TRUE]

\* push_back that counts the element before it constructs the node
push_back_counted_early(w, value, fail, ord) ==
  LET a == allocate(w, 1, ord) IN
  IF a.thrown THEN a
  ELSE LET new_node == a.ret
           n        == [a EXCEPT !.size = a.size + 1] IN
       IF fail
       THEN [deallocate(n, new_node, 1) EXCEPT !.thrown = TRUE]
       ELSE LET c == ConstructAt(n, new_node, value) IN
            IF c.head = Null
            THEN [c EXCEPT !.head = new_node, !.tail = new_node]
            ELSE [SetNext(c, c.tail, new_node) EXCEPT !.tail = new_node]

\* push_back(value): allocate, construct, link.  fail: Node's constructor throws.
push_back(w, value, fail, ord) ==
  LET a == allocate(w, 1, ord) IN
  IF a.thrown THEN a
  ELSE LET new_node == a.ret IN
       IF fail
       THEN [deallocate(a, new_node, 1) EXCEPT !.thrown = TRUE]
       ELSE LET c == ConstructAt(a, new_node, value) IN
            IF c.head = Null
            THEN [c EXCEPT !.head = new_node, !.tail = new_node, !.size = c.size + 1]
            ELSE [SetNext(c, c.tail, new_node) EXCEPT !.tail = new_node, !.size = c.size + 1]

\* emplace_back(args...): the same steps, the element built from args
emplace_back(w, value, fail, ord) ==
  LET a == allocate(w, 1, ord) IN
  IF a.thrown THEN a
  ELSE LET new_node == a.ret IN
       IF fail
       THEN [deallocate(a, new_node, 1) EXCEPT !.thrown = TRUE]
       ELSE LET c == ConstructAt(a, new_node, value) IN
            IF c.head = Null
            THEN [c EXCEPT !.head = new_node, !.tail = new_node, !.size = c.size + 1]
            ELSE [SetNext(c, c.tail, new_node) EXCEPT !.tail = new_node, !.size = c.size + 1]

\* clear() that forgets size_ = 0 after the loop
RECURSIVE clear_keeps_size(_)
clear_keeps_size(w) ==
  IF w.head = Null THEN [w EXCEPT !.tail = Null]
  ELSE IF ~IsObj(w, w.head) THEN [w EXCEPT !.ub = TRUE, !.head = Null, !.tail = Null]
  ELSE LET next == w.mem[w.head[1]][w.head[2]].next
           d    == deallocate(DestroyAt(w, w.head), w.head, 1)
       IN clear_keeps_size([d EXCEPT !.head = next])

\* clear(): while (head_) { next = head_->next; destroy(head_); deallocate(head_, 1);
\* head_ = next; }  then head_ = tail_ = nullptr, size_ = 0
RECURSIVE clear(_)
clear(w) ==
  IF w.head = Null THEN [w EXCEPT !.tail = Null, !.size = 0]
  ELSE IF ~IsObj(w, w.head) THEN [w EXCEPT !.ub = TRUE, !.head = Null, !.tail = Null, !.size = 0]
  ELSE LET next == w.mem[w.head[1]][w.head[2]].next
           d    == deallocate(DestroyAt(w, w.head), w.head, 1)
       IN clear([d EXCEPT !.head = next])

\* a copy loop that stops after the first element
CopyLoopOnce(w, it, failAt, ord, fuel) ==
  IF it = Null \/ w.thrown \/ w.ub THEN w
  ELSE IF ~IsObj(w, it) THEN [w EXCEPT !.ub = TRUE]
  ELSE push_back(w, w.mem[it[1]][it[2]].data, failAt = 1, ord)

\* for (const auto& item : other) push_back(item);  the failAt-th push_back throws
RECURSIVE CopyLoop(_, _, _, _, _)
CopyLoop(w, it, failAt, ord, fuel) ==
  IF it = Null \/ w.thrown \/ w.ub THEN w
  ELSE IF ~IsObj(w, it) THEN [w EXCEPT !.ub = TRUE]
  ELSE IF fuel = 0 THEN [w EXCEPT !.over = TRUE]
  ELSE LET item == w.mem[it[1]][it[2]].data
           w1   == push_back(w, item, failAt = 1, ord)
       IN IF IsObj(w1, it)
          THEN CopyLoop(w1, w1.mem[it[1]][it[2]].next, failAt - 1, ord, fuel - 1)
          ELSE CopyLoop(w1, it, failAt - 1, ord, fuel - 1)

\* begin() .. end(): the values met following next from head
RECURSIVE Walk(_, _, _)
Walk(w, it, fuel) ==
  IF it = Null THEN <<>>
  ELSE IF fuel = 0 \/ ~IsObj(w, it) THEN <<Undef>>
  ELSE <<w.mem[it[1]][it[2]].data>> \o Walk(w, w.mem[it[1]][it[2]].next, fuel - 1)

\* ---------------------------------------------------------------- state
VARIABLES
  alive,    \* alive[a]: object a exists (an allocator, or a container and its allocator_)
  chunks,   \* chunks[a]: chunks_ of allocator a, records [data, size, used]
  head,     \* head[c]: head_ of container c
  tail,     \* tail[c]: tail_
  size,     \* size[c]: size_
  heap,     \* heap[b]: elements block b was allocated for, 0 when not allocated
  mem,      \* mem[b][i]: the slot at <<b, i>>
  ub,       \* the program has left defined behaviour
  given,    \* history: given[a], the ranges <<p, n>> allocate(n) returned on a since it was built
  pushed,   \* history: pushed[c], the values pushed since c was last empty
  rel,      \* history: the copy or move whose two containers are being followed, or NoRel
  last,     \* history: the allocator call just made when it is allocate(0) or deallocate, or NoCall
  request,  \* history: the last request allocate(n) made to operator new for a chunk, or NoRequest
  steps     \* history: member function calls made so far

prog == <<alive, chunks, head, tail, size, heap, mem, ub>>
hist == <<given, pushed, rel, last, request, steps>>
vars == <<chunk_size, sizeof_T, alive, chunks, head, tail, size, heap, mem, ub, given, pushed,
          rel, last, request, steps>>

NoRel == [kind |-> "none", src |-> 0, dst |-> 0]
NoCall == "none"
NoRequest == [n |-> 0, new_size |-> 0, bytes |-> 0, ok |-> FALSE]

\* no object exists yet, in a program instantiated with ChunkSize = arg and
\* elements of bytes bytes
StartOf(arg, bytes) ==
  /\ chunk_size = arg
  /\ sizeof_T = bytes
  /\ alive  = [a \in Objs |-> FALSE]
  /\ chunks = [a \in Objs |-> <<>>]
  /\ head   = [c \in Objs |-> Null]
  /\ tail   = [c \in Objs |-> Null]
  /\ size   = [c \in Objs |-> 0]
  /\ heap   = [b \in Blocks |-> 0]
  /\ mem    = [b \in Blocks |-> RawBlock]
  /\ ub     = FALSE
  /\ given  = [a \in Objs |-> <<>>]
  /\ pushed = [c \in Objs |-> <<>>]
  /\ rel    = NoRel
  /\ last   = NoCall
  /\ request = NoRequest
  /\ steps  = 0

\* the same with elements of one byte: no request made with the sizes of
\* ChunkSize and MaxN comes near the limit of size_type
Start(arg) == StartOf(arg, 1)

Init == Start(ChunkSize)

Of(c) == World(head[c], tail[c], size[c], chunks[c], heap, mem)

\* the sequence a range-for over container c yields
Iter(c) == Walk(Of(c), head[c], Fuel)

Slots == Blocks \X (0..(Cap - 1))

\* the slots of the range [p, p + n)
Range(p, n) == {<<p[1], p[2] + i>> : i \in 0..(n - 1)}

\* every slot allocate() has returned on a
GivenSlots(a) == UNION {Range(given[a][i][1], given[a][i][2]) : i \in 1..Len(given[a])}

\* the fields of object c and the raw memory become those of w
Commit(c, w) ==
  /\ head'   = [head EXCEPT ![c] = w.head]
  /\ tail'   = [tail EXCEPT ![c] = w.tail]
  /\ size'   = [size EXCEPT ![c] = w.size]
  /\ chunks' = [chunks EXCEPT ![c] = w.chunks]
  /\ heap'   = w.heap
  /\ mem'    = w.mem
  /\ ub'     = w.ub

\* ---------------------------------------------------------------- allocator comparison
\* An object's number stands for its address: this and &other are numbers of Objs.

\* a comparison of what the two allocators hold instead of where they are
operator_eq_by_chunks(this, other) == chunks[this] = chunks[other]

\* operator==(other): return this == &other
operator_eq(this, other) == this = other

\* operator!=(other): return !(*this == other)
operator_ne(this, other) == ~operator_eq(this, other)

\* ---------------------------------------------------------------- allocator used directly
\* my_allocator<T, ChunkSize> a;
NewAllocator(a) ==
  /\ ~ub /\ ~alive[a]
  /\ alive' = [alive EXCEPT ![a] = TRUE]
  /\ Commit(a, World(Null, Null, 0, <<>>, heap, mem))

\* a.allocate(n)
Allocate(a, n, ord) ==
  /\ ~ub /\ alive[a]
  /\ LET w == allocate(Of(a), n, ord) IN ~w.over /\ Commit(a, w)
  /\ UNCHANGED alive

\* a.deallocate(p, n) for a pointer allocate() returned
Deallocate(a, p, n) ==
  /\ ~ub /\ alive[a]
  /\ p \in GivenSlots(a)
  /\ Commit(a, deallocate(Of(a), p, n))
  /\ UNCHANGED alive

\* a.construct(p, v) on a slot allocate() returned that holds no object
Construct(a, p, v) ==
  /\ ~ub /\ alive[a]
  /\ p \in GivenSlots(a) /\ ~IsObj(Of(a), p)
  /\ Commit(a, ConstructAt(Of(a), p, v))
  /\ UNCHANGED alive

\* a.destroy(p) on an object constructed earlier
Destroy(a, p) ==
  /\ ~ub /\ alive[a]
  /\ p \in GivenSlots(a) /\ IsObj(Of(a), p)
  /\ Commit(a, DestroyAt(Of(a), p))
  /\ UNCHANGED alive

\* a goes out of scope: ~my_allocator()
DeleteAllocator(a) ==
  /\ ~ub /\ alive[a]
  /\ Commit(a, Teardown(Of(a)))
  /\ alive' = [alive EXCEPT ![a] = FALSE]

\* ---------------------------------------------------------------- container operations
\* my_container<T, my_allocator<T, ChunkSize>> c;
NewContainer(c) ==
  /\ ~ub /\ ~alive[c]
  /\ alive' = [alive EXCEPT ![c] = TRUE]
  /\ Commit(c, World(Null, Null, 0, <<>>, heap, mem))

\* c.push_back(v)
PushBack(c, v, fail, ord) ==
  /\ ~ub /\ alive[c]
  /\ LET w == push_back(Of(c), v, fail, ord) IN ~w.over /\ Commit(c, w)
  /\ UNCHANGED alive

\* c.emplace_back(v)
EmplaceBack(c, v, fail, ord) ==
  /\ ~ub /\ alive[c]
  /\ LET w == emplace_back(Of(c), v, fail, ord) IN ~w.over /\ Commit(c, w)
  /\ UNCHANGED alive

\* c.clear()
Clear(c) ==
  /\ ~ub /\ alive[c]
  /\ Commit(c, clear(Of(c)))
  /\ UNCHANGED alive

\* c goes out of scope: ~my_container() runs clear(), then allocator_ is destroyed
DeleteContainer(c) ==
  /\ ~ub /\ alive[c]
  /\ Commit(c, Teardown(clear(Of(c))))
  /\ alive' = [alive EXCEPT ![c] = FALSE]

\* my_container d(s);  allocator_ is select_on_container_copy_construction(s.allocator_),
\* which for my_allocator is a copy.  If a push_back throws, the members built so
\* far are destroyed (allocator_), and d never comes to exist.
CopyConstruct(d, s, failAt, ord) ==
  /\ ~ub /\ ~alive[d] /\ alive[s]
  /\ LET w == CopyLoop(World(Null, Null, 0, CopyAllocator(chunks[s]), heap, mem),
                       head[s], failAt, ord, Fuel)
     IN /\ ~w.over
        /\ IF w.thrown
           THEN /\ Commit(d, [Teardown(w) EXCEPT !.head = Null, !.tail = Null, !.size = 0])
                /\ UNCHANGED alive
           ELSE /\ Commit(d, w)
                /\ alive' = [alive EXCEPT ![d] = TRUE]

\* my_container d(std::move(s));
MoveConstruct(d, s) ==
  /\ ~ub /\ ~alive[d] /\ alive[s]
  /\ alive'  = [alive EXCEPT ![d] = TRUE]
  /\ head'   = [head EXCEPT ![d] = head[s], ![s] = Null]
  /\ tail'   = [tail EXCEPT ![d] = tail[s], ![s] = Null]
  /\ size'   = [size EXCEPT ![d] = size[s], ![s] = 0]
  /\ chunks' = [chunks EXCEPT ![d] = CopyAllocator(chunks[s])]
  /\ UNCHANGED <<heap, mem, ub>>

\* the body of d = s for this != &other: clear(); allocator_ = other.allocator_;
\* for (const auto& item : other) push_back(item);
copy_assign(d, s, failAt, ord) ==
  LET w1 == clear(Of(d))
      w2 == [w1 EXCEPT !.chunks = AssignAllocator(w1.chunks, chunks[s])]
  IN CopyLoop(w2, IF d = s THEN w2.head ELSE head[s], failAt, ord, Fuel)

\* d = s without the test for self-assignment
CopyAssignUnguarded(d, s, failAt, ord) ==
  /\ ~ub /\ alive[d] /\ alive[s]
  /\ LET w == copy_assign(d, s, failAt, ord)
     IN ~w.over /\ Commit(d, w) /\ UNCHANGED alive

\* d = s;
CopyAssign(d, s, failAt, ord) ==
  /\ ~ub /\ alive[d] /\ alive[s]
  /\ IF d = s
     THEN UNCHANGED prog
     ELSE LET w == copy_assign(d, s, failAt, ord)
          IN ~w.over /\ Commit(d, w) /\ UNCHANGED alive

\* d = std::move(s) that leaves s pointing at the nodes it gave away
MoveAssignKeepsSource(d, s) ==
  /\ ~ub /\ alive[d] /\ alive[s]
  /\ IF d = s
     THEN UNCHANGED prog
     ELSE LET w1 == clear(Of(d)) IN
          /\ head'   = [head EXCEPT ![d] = head[s]]
          /\ tail'   = [tail EXCEPT ![d] = tail[s]]
          /\ size'   = [size EXCEPT ![d] = size[s]]
          /\ chunks' = [chunks EXCEPT ![d] = AssignAllocator(w1.chunks, chunks[s])]
          /\ heap'   = w1.heap
          /\ mem'    = w1.mem
          /\ ub'     = w1.ub
          /\ UNCHANGED alive

\* d = std::move(s);
MoveAssign(d, s) ==
  /\ ~ub /\ alive[d] /\ alive[s]
  /\ IF d = s
     THEN UNCHANGED prog
     ELSE LET w1 == clear(Of(d)) IN
          /\ head'   = [head EXCEPT ![d] = head[s], ![s] = Null]
          /\ tail'   = [tail EXCEPT ![d] = tail[s], ![s] = Null]
          /\ size'   = [size EXCEPT ![d] = size[s], ![s] = 0]
          /\ chunks' = [chunks EXCEPT ![d] = AssignAllocator(w1.chunks, chunks[s])]
          /\ heap'   = w1.heap
          /\ mem'    = w1.mem
          /\ ub'     = w1.ub
          /\ UNCHANGED alive

\* ---------------------------------------------------------------- specifications
\* The element a call constructs is a value no earlier call used: the code never
\* looks at an element, so distinct values show every difference in order or identity.
Fresh == steps + 1

One == CHOOSE a \in Objs : \A b \in Objs : a <= b

\* SpecAlloc: one allocator used directly, through its own member functions,
\* in runs of at most AllocSteps calls, in an instantiation with ChunkSize or
\* ChunkSize + 1 elements per chunk.
\* given[a] collects what allocate() returned on a.
Returned(a, n, ord) ==
  LET w == allocate(Of(a), n, ord)
  IN IF n = 0 \/ w.thrown THEN given[a] ELSE Append(given[a], <<w.ret, n>>)

AllocatorStep(a) ==
  \/ NewAllocator(a) /\ given' = [given EXCEPT ![a] = <<>>] /\ last' = NoCall
  \/ \E n \in 0..MaxN, ord \in Orders :
       /\ Allocate(a, n, ord)
       /\ given' = [given EXCEPT ![a] = Returned(a, n, ord)]
       /\ last' = IF n = 0 THEN "allocate(0)" ELSE NoCall
  \/ \E p \in Slots, n \in 1..MaxN :
       Deallocate(a, p, n) /\ UNCHANGED given /\ last' = "deallocate"
  \/ \E p \in Slots : Construct(a, p, Fresh) /\ UNCHANGED given /\ last' = NoCall
  \/ \E p \in Slots : Destroy(a, p) /\ UNCHANGED given /\ last' = NoCall
  \/ /\ DeleteAllocator(a)
     /\ given' = [given EXCEPT ![a] = <<>>]
     /\ last' = NoCall

NextAlloc ==
  /\ steps < AllocSteps
  /\ AllocatorStep(One)
  /\ steps' = steps + 1
  /\ UNCHANGED <<chunk_size, sizeof_T, pushed, rel, request>>
InitAlloc == \E arg \in ChunkSize..(ChunkSize + 1) : Start(arg)
SpecAlloc == InitAlloc /\ [][NextAlloc]_vars

\* SpecSolo: one container over the pool allocator, nothing copied from it,
\* in runs of at most SoloSteps calls.
\* pushed[c] collects the values pushed since c was last empty, given[c] what
\* allocate() returned on c's allocator_.
SoloStep(c) ==
  \/ /\ NewContainer(c)
     /\ pushed' = [pushed EXCEPT ![c] = <<>>]
     /\ given' = [given EXCEPT ![c] = <<>>]
  \/ \E fail \in BOOLEAN, ord \in Orders :
       /\ PushBack(c, Fresh, fail, ord)
       /\ pushed' = [pushed EXCEPT ![c] =
                       IF push_back(Of(c), Fresh, fail, ord).thrown THEN pushed[c]
                       ELSE Append(pushed[c], Fresh)]
       /\ given' = [given EXCEPT ![c] = Returned(c, 1, ord)]
  \/ \E fail \in BOOLEAN, ord \in Orders :
       /\ EmplaceBack(c, Fresh, fail, ord)
       /\ pushed' = [pushed EXCEPT ![c] =
                       IF emplace_back(Of(c), Fresh, fail, ord).thrown THEN pushed[c]
                       ELSE Append(pushed[c], Fresh)]
       /\ given' = [given EXCEPT ![c] = Returned(c, 1, ord)]
  \/ Clear(c) /\ pushed' = [pushed EXCEPT ![c] = <<>>] /\ UNCHANGED given
  \/ /\ DeleteContainer(c)
     /\ pushed' = [pushed EXCEPT ![c] = <<>>]
     /\ given' = [given EXCEPT ![c] = <<>>]

NextSolo ==
  /\ steps < SoloSteps
  /\ SoloStep(One)
  /\ steps' = steps + 1
  /\ UNCHANGED <<chunk_size, sizeof_T, rel, last, request>>
SpecSolo == Init /\ [][NextSolo]_vars

\* Spec: NumObjs containers over the pool allocator and every member function,
\* in runs of at most MaxSteps calls
ContainerStep ==
  \/ \E c \in Objs : NewContainer(c)
  \/ \E c \in Objs, fail \in BOOLEAN, ord \in Orders : PushBack(c, Fresh, fail, ord)
  \/ \E c \in Objs, fail \in BOOLEAN, ord \in Orders : EmplaceBack(c, Fresh, fail, ord)
  \/ \E c \in Objs : Clear(c)
  \/ \E c \in Objs : DeleteContainer(c)

CopyMoveStep ==
  \/ \E d, s \in Objs, failAt \in 0..ChunkSize, ord \in Orders : CopyConstruct(d, s, failAt, ord)
  \/ \E d, s \in Objs : MoveConstruct(d, s)
  \/ \E d, s \in Objs, failAt \in 0..ChunkSize, ord \in Orders : CopyAssign(d, s, failAt, ord)
  \/ \E d, s \in Objs : MoveAssign(d, s)

Next ==
  /\ steps < MaxSteps
  /\ ContainerStep \/ CopyMoveStep
  /\ steps' = steps + 1
  /\ UNCHANGED <<chunk_size, sizeof_T, given, pushed, rel, last, request>>
Spec == Init /\ [][Next]_vars

\* SpecPair: two containers are built, one is copied, assigned or moved into the
\* other (or assigned to itself), and from then on the two are only pushed to.
\* rel names the pair.
PairStep ==
  \/ rel = NoRel /\ (\E c \in Objs : NewContainer(c)) /\ UNCHANGED rel
  \/ rel = NoRel /\ (\E c \in Objs, fail \in BOOLEAN, ord \in Orders : PushBack(c, Fresh, fail, ord))
                 /\ UNCHANGED rel
  \/ rel = NoRel /\ \E d, s \in Objs, ord \in Orders :
       CopyConstruct(d, s, 0, ord) /\ alive'[d] /\ rel' = [kind |-> "copy", src |-> s, dst |-> d]
  \/ rel = NoRel /\ \E d, s \in Objs, ord \in Orders :
       /\ d # s /\ CopyAssign(d, s, 0, ord) /\ ~copy_assign(d, s, 0, ord).thrown
       /\ rel' = [kind |-> "copy", src |-> s, dst |-> d]
  \/ rel = NoRel /\ \E c \in Objs, ord \in Orders :
       CopyAssign(c, c, 0, ord) /\ rel' = [kind |-> "self", src |-> c, dst |-> c]
  \/ rel = NoRel /\ \E d, s \in Objs :
       MoveConstruct(d, s) /\ rel' = [kind |-> "move", src |-> s, dst |-> d]
  \/ rel = NoRel /\ \E d, s \in Objs :
       d # s /\ MoveAssign(d, s) /\ rel' = [kind |-> "move", src |-> s, dst |-> d]
  \/ rel # NoRel /\ (\E c \in {rel.src, rel.dst}, fail \in BOOLEAN, ord \in Orders :
                       PushBack(c, Fresh, fail, ord))
                 /\ UNCHANGED rel

NextPair ==
  /\ steps < MaxSteps
  /\ PairStep
  /\ steps' = steps + 1
  /\ UNCHANGED <<chunk_size, sizeof_T, given, pushed, last, request>>
SpecPair == Init /\ [][NextPair]_vars

\* SpecFill: one allocator asked for single elements only, in runs of at most
\* FillSteps calls, in an instantiation with a chunk capacity from FillSizes,
\* the default argument among them.
FillSizes == (1..ChunkSize) \cup {DefaultChunkSize}

InitFill == \E arg \in FillSizes : Start(arg)

FillStep(a) ==
  \/ NewAllocator(a) /\ given' = [given EXCEPT ![a] = <<>>]
  \/ \E ord \in Orders :
       Allocate(a, 1, ord) /\ given' = [given EXCEPT ![a] = Returned(a, 1, ord)]
  \/ DeleteAllocator(a) /\ given' = [given EXCEPT ![a] = <<>>]

NextFill ==
  /\ steps < FillSteps
  /\ FillStep(One)
  /\ steps' = steps + 1
  /\ UNCHANGED <<chunk_size, sizeof_T, pushed, rel, last, request>>
SpecFill == InitFill /\ [][NextFill]_vars

\* SpecBytes: the request allocate(n) makes to operator new when no chunk has
\* room, for every n >= 1 of size_type, in instantiations with ChunkSize or
\* ChunkSize + 1 elements per chunk and sizeof(T) from 1 to MaxSizeof, in runs of
\* at most BytesSteps requests.  request holds n, the capacity recorded in the
\* chunk, the byte count passed to operator new, and whether operator new
\* returned memory (ok) or threw bad_alloc.
InitBytes == \E arg \in ChunkSize..(ChunkSize + 1), bytes \in 1..MaxSizeof : StartOf(arg, bytes)

\* the new-chunk path of allocate(n), operator new returning memory
NewChunkObtained(n) ==
  request' = [n |-> n, new_size |-> NewChunkSize(n),
              bytes |-> ByteCount(NewChunkSize(n)), ok |-> TRUE]

\* the same path, operator new throwing bad_alloc
NewChunkRefused(n) ==
  request' = [n |-> n, new_size |-> NewChunkSize(n),
              bytes |-> ByteCount(NewChunkSize(n)), ok |-> FALSE]

NextBytes ==
  /\ steps < BytesSteps
  /\ \E n \in 1..SizeTypeMax : NewChunkObtained(n) \/ NewChunkRefused(n)
  /\ steps' = steps + 1
  /\ UNCHANGED <<chunk_size, sizeof_T, prog, given, pushed, rel, last>>
SpecBytes == InitBytes /\ [][NextBytes]_vars

\* ---------------------------------------------------------------- properties
\* the blocks named by the chunks of allocator a
Bases(a) == {chunks[a][k].data : k \in 1..Len(chunks[a])}

\* the slots ~my_allocator() runs ~T() on: [0, used) of every chunk
TeardownSlots(cs) == UNION {Range(<<cs[k].data, 0>>, cs[k].used) : k \in 1..Len(cs)}

\* C1: storage an allocator holds in its chunks is not released while that
\* allocator is alive, whatever is done with other allocator instances: every
\* chunk of a live allocator names memory that is still allocated.
C1_StorageKept ==
  \A a \in Objs : alive[a] => \A b \in Bases(a) : heap[b] # 0

\* C2: the ranges [p, p + n) returned by the allocate(n) calls (n >= 1) made on
\* one allocator lie inside allocated chunks and are pairwise disjoint, with
\* deallocate, construct and destroy calls in between.
C2_RangesDisjoint ==
  \A a \in Objs :
    /\ \A i \in 1..Len(given[a]) :
         \A q \in Range(given[a][i][1], given[a][i][2]) : InLive(Of(a), q)
    /\ \A i, j \in 1..Len(given[a]) :
         i < j => Range(given[a][i][1], given[a][i][2])
                    \cap Range(given[a][j][1], given[a][j][2]) = {}

\* three ranges were returned, two of them from the same chunk, and a second
\* chunk exists
C2_Witness ==
  /\ alive[One] /\ Len(given[One]) >= 3 /\ Len(chunks[One]) = 2
  /\ \E i, j \in 1..Len(given[One]) : i < j /\ given[One][i][1][1] = given[One][j][1][1]

\* a push_back on container c
PushedOn(c) == \E fail \in BOOLEAN, ord \in Orders : PushBack(c, Fresh, fail, ord)

\* C3: after B is copy-constructed from A, a push_back on one of the two leaves
\* the sequence the other one iterates unchanged.
C3_CopyIndependent ==
  [][rel.kind = "copy" /\ rel' = rel =>
       /\ PushedOn(rel.src) => Iter(rel.dst)' = Iter(rel.dst)
       /\ PushedOn(rel.dst) => Iter(rel.src)' = Iter(rel.src)]_vars

\* C4: no chunk is owned by two live allocators.
C4_ExclusiveChunks ==
  \A a, b \in Objs : (a # b /\ alive[a] /\ alive[b]) => Bases(a) \cap Bases(b) = {}

\* C5: when a container is torn down, the element destructor runs exactly on the
\* slots that hold a constructed element at that moment, i.e. after clear() has
\* destroyed the nodes.
C5_TeardownExact ==
  [][\A c \in Objs : DeleteContainer(c) =>
       TeardownSlots(clear(Of(c)).chunks) = {p \in Slots : IsObj(clear(Of(c)), p)}]_vars

\* C6: in every chunk used <= capacity, and a chunk's memory and capacity never
\* change while its allocator lives.
C6_ChunksBounded ==
  /\ [](\A a \in Objs : \A k \in 1..Len(chunks[a]) : chunks[a][k].used <= chunks[a][k].size)
  /\ [][\A a \in Objs : (alive[a] /\ alive'[a]) =>
          /\ Len(chunks'[a]) >= Len(chunks[a])
          /\ \A k \in 1..Len(chunks[a]) :
               /\ chunks'[a][k].data = chunks[a][k].data
               /\ chunks'[a][k].size = chunks[a][k].size]_vars

\* a chunk made for a request larger than ChunkSize, behind a first chunk that is full
C6_Witness ==
  /\ alive[One] /\ Len(chunks[One]) = 2
  /\ chunks[One][1].used = chunks[One][1].size
  /\ chunks[One][2].size = MaxN /\ chunks[One][2].used = MaxN

\* C7: after n successful push_back calls on an empty container, size() = n and
\* iteration yields the n values in the order they were pushed.
C7_PushOrder ==
  \A c \in Objs : alive[c] => size[c] = Len(pushed[c]) /\ Iter(c) = pushed[c]

\* three elements, across two chunks
C7_Witness ==
  alive[One] /\ Len(pushed[One]) = 3 /\ Len(chunks[One]) = 2 /\ size[One] = 3

\* C8: a push_back or emplace_back that succeeds raises size by one and makes the
\* new node the tail; one that throws leaves head, tail, size and the sequence of
\* elements as they were.
AllOrNothing(c, thrown) ==
  IF thrown
  THEN /\ head'[c] = head[c] /\ tail'[c] = tail[c] /\ size'[c] = size[c]
       /\ Iter(c)' = Iter(c)
  ELSE /\ size'[c] = size[c] + 1
       /\ tail'[c] # tail[c]
       /\ InLive(Of(c)', tail'[c])
       /\ mem'[tail'[c][1]][tail'[c][2]] = [st |-> "live", data |-> Fresh, next |-> Null]
       /\ head'[c] = IF head[c] = Null THEN tail'[c] ELSE head[c]

C8_AllOrNothing ==
  [][\A c \in Objs, fail \in BOOLEAN, ord \in Orders :
       /\ PushBack(c, Fresh, fail, ord)
            => AllOrNothing(c, push_back(Of(c), Fresh, fail, ord).thrown)
       /\ EmplaceBack(c, Fresh, fail, ord)
            => AllOrNothing(c, emplace_back(Of(c), Fresh, fail, ord).thrown)]_vars

\* after three calls a container holds one element and has used two slots: one
\* push succeeded and one threw
C8_Witness ==
  /\ steps = 3 /\ alive[One]
  /\ size[One] = 1 /\ Len(chunks[One]) = 1 /\ chunks[One][1].used = 2

\* C9: when the node's construction throws in push_back or emplace_back, the
\* storage obtained for it is given back: the allocator's chunks are as they
\* were before the call.
C9_StorageRolledBack ==
  [][\A c \in Objs, ord \in Orders :
       /\ (PushBack(c, Fresh, TRUE, ord) /\ ~allocate(Of(c), 1, ord).thrown)
            => chunks'[c] = chunks[c]
       /\ (EmplaceBack(c, Fresh, TRUE, ord) /\ ~allocate(Of(c), 1, ord).thrown)
            => chunks'[c] = chunks[c]]_vars

C11_MovedFromIndependent ==
  [][rel.kind = "move" /\ rel' = rel =>
       /\ PushedOn(rel.src) => Iter(rel.dst)' = Iter(rel.dst)
       /\ PushedOn(rel.dst) => Iter(rel.src)' = Iter(rel.src)]_vars

\* the number of next links followed from it until target is met; Undef when the
\* walk leaves the constructed nodes or never meets target
RECURSIVE Hops(_, _, _, _)
Hops(w, it, target, fuel) ==
  IF fuel = 0 \/ ~IsObj(w, it) THEN Undef
  ELSE IF it = target THEN 0
  ELSE LET rest == Hops(w, w.mem[it[1]][it[2]].next, target, fuel - 1)
       IN IF rest = Undef THEN Undef ELSE rest + 1

\* C12: between public operations on any set of containers, size = 0 iff head and
\* tail are both null; and when size > 0 the tail's next link is null and
\* following next from head reaches tail after exactly size - 1 steps.
C12_Structure ==
  \A c \in Objs : (alive[c] /\ ~ub) =>
    /\ size[c] = 0 <=> (head[c] = Null /\ tail[c] = Null)
    /\ size[c] > 0 =>
         /\ IsObj(Of(c), tail[c])
         /\ mem[tail[c][1]][tail[c][2]].next = Null
         /\ Hops(Of(c), head[c], tail[c], Fuel) = size[c] - 1

\* C13: with chunk capacity C, k allocate(1) calls on a fresh allocator make
\* exactly ceil(k / C) chunks, all but the last with used = C and the last with
\* the remainder; with C = 10 and k = 11 that is two chunks, used 10 and 1.
C13_ChunkCount ==
  \A a \in Objs :
    (alive[a] /\ \A i \in 1..Len(given[a]) : given[a][i][2] = 1) =>
      LET k == Len(given[a])
          m == Len(chunks[a])
      IN /\ m = (k + chunk_size - 1) \div chunk_size
         /\ \A j \in 1..m :
              /\ chunks[a][j].size = chunk_size
              /\ chunks[a][j].used = IF j < m THEN chunk_size
                                     ELSE k - chunk_size * (m - 1)

\* the default capacity and one request more than a chunk holds
C13_Witness ==
  /\ chunk_size = DefaultChunkSize /\ alive[One]
  /\ Len(given[One]) = DefaultChunkSize + 1
  /\ Len(chunks[One]) = 2
  /\ chunks[One][1].used = DefaultChunkSize /\ chunks[One][2].used = 1

\* C14: clear() leaves size 0 with head and tail null, and a second clear()
\* right after it changes nothing in the container, its allocator or the memory.
C14_ClearIdempotent ==
  [][\A c \in Objs : Clear(c) =>
       /\ size'[c] = 0 /\ head'[c] = Null /\ tail'[c] = Null
       /\ Iter(c)' = <<>>
       /\ clear(Of(c)') = Of(c)']_vars

\* a container emptied by clear() after it held two elements
C14_Witness ==
  /\ alive[One] /\ size[One] = 0 /\ head[One] = Null
  /\ Cardinality({p \in Slots : mem[p[1]][p[2]].st = "dead"}) >= 2

\* the elements all chunks of cs are reserved for
RECURSIVE Reserved(_)
Reserved(cs) == IF cs = <<>> THEN 0 ELSE Head(cs).size + Reserved(Tail(cs))

\* C15: over push_back / clear cycles on a container, its allocator's number of
\* chunks, the sum of the chunk capacities and each chunk's used count never
\* decrease, and allocate never hands out a slot it handed out before.
C15_MonotoneGrowth ==
  [][\A c \in Objs : (alive[c] /\ alive'[c]) =>
       /\ Len(chunks'[c]) >= Len(chunks[c])
       /\ Reserved(chunks'[c]) >= Reserved(chunks[c])
       /\ \A k \in 1..Len(chunks[c]) : chunks'[c][k].used >= chunks[c][k].used
       /\ \A i \in (Len(given[c]) + 1)..Len(given'[c]) :
            Range(given'[c][i][1], given'[c][i][2]) \cap GivenSlots(c) = {}]_vars

\* the third cycle: two elements pushed and cleared before, one held now, the
\* second chunk begun
C15_Witness ==
  /\ alive[One] /\ size[One] = 1 /\ Len(given[One]) = 3 /\ Len(chunks[One]) = 2
  /\ Cardinality({p \in Slots : mem[p[1]][p[2]].st = "dead"}) = 2

\* C16: a == b holds exactly when a and b are the same object, and a != b is its
\* negation: two default-constructed allocators are unequal, and so are an
\* allocator and its copy.
C16_EqualityIsIdentity ==
  \A a, b \in Objs : (alive[a] /\ alive[b]) =>
    /\ operator_eq(a, b) <=> a = b
    /\ operator_ne(a, b) <=> ~operator_eq(a, b)
    /\ (a # b /\ chunks[a] = chunks[b]) => (~operator_eq(a, b) /\ operator_ne(a, b))

\* an allocator and its copy, holding the same chunk records, compare unequal
C16_Witness ==
  \E a, b \in Objs :
    /\ a # b /\ alive[a] /\ alive[b]
    /\ chunks[a] # <<>> /\ chunks[a] = chunks[b]
    /\ operator_ne(a, b) /\ operator_eq(a, a)

\* C17: copy self-assignment c = c changes nothing: head, tail, size, the element
\* sequence, the allocator's chunks and the memory are as before.
C17_SelfAssignNoOp ==
  [][\A c \in Objs :
       (rel = NoRel /\ rel' = [kind |-> "self", src |-> c, dst |-> c]) =>
          /\ head'[c] = head[c] /\ tail'[c] = tail[c] /\ size'[c] = size[c]
          /\ Iter(c)' = Iter(c)
          /\ chunks'[c] = chunks[c]
          /\ heap' = heap /\ mem' = mem]_vars

\* a container holding two elements has just been assigned to itself
C17_Witness ==
  /\ rel.kind = "self" /\ steps = 4
  /\ alive[rel.src] /\ size[rel.src] = 2 /\ Len(Iter(rel.src)) = 2

\* the allocate(n) call, n >= 1, that returned p on a in this step, if there is one
JustGiven(a) == given'[a][Len(given'[a])]
Gave(a) == alive[a] /\ alive'[a] /\ Len(given'[a]) = Len(given[a]) + 1

\* the chunks of a with room for n elements
Fitting(a, n) == {k \in 1..Len(chunks[a]) : chunks[a][k].size - chunks[a][k].used >= n}

\* C18: when some chunk has capacity - used >= n, allocate(n) returns base + used
\* of the fitting chunk created first, adds exactly n to that chunk's used, and
\* leaves the number of chunks and every other chunk as they were.
C18_FirstFit ==
  [][\A a \in Objs : (Gave(a) /\ Fitting(a, JustGiven(a)[2]) # {}) =>
       LET p == JustGiven(a)[1]
           n == JustGiven(a)[2]
       IN \E k \in Fitting(a, n) :
            /\ \A j \in Fitting(a, n) : k <= j
            /\ p = <<chunks[a][k].data, chunks[a][k].used>>
            /\ chunks'[a] = [chunks[a] EXCEPT ![k].used = chunks[a][k].used + n]]_vars

\* the third request went to the first chunk although the second had room too
C18_Witness ==
  /\ alive[One] /\ Len(chunks[One]) = 2 /\ Len(given[One]) = 3
  /\ given[One][2][1][1] = chunks[One][2].data
  /\ given[One][3][1][1] = chunks[One][1].data
  /\ chunks[One][2].size - chunks[One][2].used >= given[One][3][2]

\* C19: when no chunk has capacity - used >= n, allocate(n) appends exactly one
\* chunk with capacity max(ChunkSize, n) and used = n at the end of the chunk
\* sequence, returns its base address, and leaves the earlier chunks as they were.
C19_NewChunk ==
  [][\A a \in Objs : (Gave(a) /\ Fitting(a, JustGiven(a)[2]) = {}) =>
       LET p == JustGiven(a)[1]
           n == JustGiven(a)[2]
       IN /\ p[2] = 0 /\ heap[p[1]] = 0
          /\ chunks'[a] = Append(chunks[a], [data |-> p[1],
                                             size |-> IF chunk_size >= n THEN chunk_size ELSE n,
                                             used |-> n])
          /\ heap'[p[1]] = chunks'[a][Len(chunks'[a])].size]_vars

\* a second chunk larger than ChunkSize, made while the first still had room,
\* though not enough
C19_Witness ==
  /\ alive[One] /\ Len(chunks[One]) = 2 /\ Len(given[One]) = 2
  /\ chunks[One][1].used < chunks[One][1].size
  /\ chunks[One][2].size > chunk_size /\ chunks[One][2].used = chunks[One][2].size

C21_DeallocateNoOp ==
  /\ [](\A a \in Objs, p \in Slots \cup {Null}, n \in 0..MaxN :
         alive[a] => deallocate(Of(a), p, n).chunks = chunks[a])
  /\ [][last' = "deallocate" => UNCHANGED <<chunks, heap, mem>>]_vars

\* deallocate was just called on an allocator with two chunks in use
C21_Witness ==
  /\ last = "deallocate" /\ alive[One]
  /\ Len(chunks[One]) = 2
  /\ \A k \in 1..2 : chunks[One][k].used > 0

\* C22 (my_allocator.h 51-52): allocate(0) returns a null pointer and leaves the
\* allocator unchanged.  In every state of an allocator -- no chunk yet, a chunk
\* with room, every chunk full, no memory left to take -- allocate(0) returns
\* nullptr without throwing, creates no chunk and changes no used count; and every
\* allocate(0) made in a run leaves chunks_ and the raw memory as they were.
C22_AllocateZero ==
  /\ [](\A a \in Objs, ord \in Orders :
         alive[a] => LET w == allocate(Of(a), 0, ord)
                     IN /\ w.ret = Null /\ ~w.thrown
                        /\ w.chunks = chunks[a] /\ w.heap = heap /\ w.mem = mem)
  /\ [][last' = "allocate(0)" => UNCHANGED <<chunks, heap, mem, given>>]_vars

\* allocate(0) was just called on an allocator whose first chunk is full and
\* whose second has room
C22_Witness ==
  /\ last = "allocate(0)" /\ alive[One]
  /\ Len(chunks[One]) = 2
  /\ chunks[One][1].used = chunks[One][1].size
  /\ chunks[One][2].used < chunks[One][2].size

\* the memory events of the allocator's destructor when object c goes out of
\* scope (for a container, after its clear()): ~T() runs and releases, in order
TeardownLog(c) == Teardown([clear(Of(c)) EXCEPT !.log = <<>>]).log

\* position in log of the k-th release
ReleasePos(log, k) ==
  LET D == {i \in 1..Len(log) : log[i].ev = "delete"}
  IN CHOOSE i \in D : Cardinality({j \in D : j <= i}) = k

\* log releases the chunks of cs in their order, destroys each element of
\* [0, used) of a chunk after the release of the chunk before it and before its
\* own, and runs no destructor in memory that is released at that moment
TeardownOrdered(log, cs) ==
  /\ Cardinality({i \in 1..Len(log) : log[i].ev = "delete"}) = Len(cs)
  /\ \A k \in 1..Len(cs) : log[ReleasePos(log, k)].at = <<cs[k].data, 0>>
  /\ \A k \in 1..Len(cs) : \A i \in 0..(cs[k].used - 1) :
       \E j \in 1..Len(log) :
         /\ log[j].ev = "destroy" /\ log[j].at = <<cs[k].data, i>>
         /\ j < ReleasePos(log, k)
         /\ k > 1 => j > ReleasePos(log, k - 1)
  /\ \A j \in 1..Len(log) : log[j].ev = "destroy" => log[j].ok

\* C23 (my_allocator.h 39-48): teardown ordering.  Whenever an allocator is
\* destroyed, its chunks are processed in creation order, every element
\* destruction in [0, used) of a chunk happens before that chunk's memory is
\* released, and no element destructor runs on a chunk whose memory has already
\* been released.
C23_TeardownOrder ==
  [][\A a \in Objs : alive[a] /\ ~alive'[a] => TeardownOrdered(TeardownLog(a), chunks[a])]_vars

\* C24 (my_allocator.h 36-48, part_001 156-183): every chunk ever created is
\* released exactly once, for any sequence of container copies, moves and
\* assignments.  Never zero times: memory that is allocated is a chunk of some
\* live allocator, the only thing that can still release it, so that none is left
\* once every allocator has been destroyed.  Never twice: when an object goes out
\* of scope, each chunk its allocator releases is allocated at that moment.
C24_ReleasedOnce ==
  /\ [](~ub => /\ \A b \in Blocks : heap[b] # 0 => \E a \in Objs : alive[a] /\ b \in Bases(a)
               /\ (\A a \in Objs : ~alive[a]) => \A b \in Blocks : heap[b] = 0)
  /\ [][\A c \in Objs : alive[c] /\ ~alive'[c] =>
          \A j \in 1..Len(TeardownLog(c)) :
            TeardownLog(c)[j].ev = "delete" => TeardownLog(c)[j].ok]_vars

\* C25 (my_allocator.h 65-78, 99-101): for every n >= 1 of size_type for which
\* allocate(n) creates a new chunk and returns normally, the byte count passed
\* to operator new is at least n * sizeof(T): new_size * sizeof(T) does not wrap
\* around, and the capacity recorded in the chunk is covered by the memory
\* obtained, also for n > max_size().
C25_BytesCoverRequest ==
  request.ok =>
    /\ request.bytes >= request.n * sizeof_T
    /\ request.bytes = request.new_size * sizeof_T

====
